---- MODULE Spec2Model ----
(***************************************************************************)
(* Model of the biographical_RAG content pipeline:                         *)
(*   scraper.py  ContentScraper (_clean_url, _search_duckduckgo,           *)
(*               _scrape_wikisource, _scrape_gutenberg, _extract_content,  *)
(*               scrape_content), scrape_person_content                    *)
(*   rag_qa.py   BiographicalRAG (_split_text, load_content,               *)
(*               answer_question)                                          *)
(*   run.py      scrape_mode                                               *)
(*                                                                         *)
(* Python strings are sequences of one-character strings.  Optional[T] is  *)
(* the empty tuple (None) or a one-element tuple holding the value.        *)
(***************************************************************************)
EXTENDS Integers, Sequences, FiniteSets, TLC

VARIABLES
    \* ---- ContentScraper.scrape_content (one run) ----
    pc,                 \* position of the run
    entry,              \* which __main__ started the run
    name,               \* words of the person's name
    qi,                 \* index of the current query in its phase's list
    query,              \* words of the current query
    urls,               \* rest of the current query's result list
    seen_urls,
    collected_content,
    primary_count,
    secondary_count,
    fetches,            \* log: page URL -> number of _make_request calls
    outcome,            \* log: page URL -> what happened when it was processed
    searches,           \* log: one entry per _search_duckduckgo call
    \* ---- ContentScraper._clean_url ----
    u_pc, u_raw, u_res,
    \* ---- ContentScraper._search_duckduckgo ----
    s_pc, s_texts, s_hrefs, s_max, s_res,
    \* ---- ContentScraper._extract_content ----
    e_pc, e_page, e_res,
    \* ---- BiographicalRAG._split_text ----
    t_pc, t_text, t_size, t_chunks,
    \* ---- BiographicalRAG: self.collection, the entries in insertion order ----
    collection,
    \* ---- BiographicalRAG.load_content ----
    l_pc, l_person, l_file, l_idx, l_chunks, l_chunk_idx,
    \* ---- BiographicalRAG.answer_question ----
    a_pc, a_person, a_n, a_results, a_answer, a_calls

scrapeVars == <<pc, entry, name, qi, query, urls, seen_urls, collected_content,
                primary_count, secondary_count, fetches, outcome, searches>>
urlVars == <<u_pc, u_raw, u_res>>
searchVars == <<s_pc, s_texts, s_hrefs, s_max, s_res>>
extractVars == <<e_pc, e_page, e_res>>
splitVars == <<t_pc, t_text, t_size, t_chunks>>
loadVars == <<l_pc, l_person, l_file, l_idx, l_chunks, l_chunk_idx>>
answerVars == <<a_pc, a_person, a_n, a_results, a_answer, a_calls>>
ragVars == <<collection, loadVars, answerVars>>
vars == <<scrapeVars, urlVars, searchVars, extractVars, splitVars, ragVars>>

(***************************************************************************)
(* Optional values and string helpers                                      *)
(***************************************************************************)
None == <<>>
Some(v) == <<v>>
Val(o) == o[1]

Letters == {"a","b","c","d","e","f","g","h","i","j","k","l","m",
            "n","o","p","q","r","s","t","u","v","w","x","y","z"}
Digits == {"0","1","2","3","4","5","6","7","8","9"}
Whitespace == {" ", "\n", "\t"}

\* Python's `sub in s` on strings
IsIn(sub, s) ==
    \E i \in 1..(Len(s) - Len(sub) + 1) : SubSeq(s, i, i + Len(sub) - 1) = sub

StartsWith(s, p) == Len(s) >= Len(p) /\ SubSeq(s, 1, Len(p)) = p

\* str.strip()
Strip(s) ==
    LET keep == {i \in 1..Len(s) : s[i] \notin Whitespace}
    IN  IF keep = {} THEN <<>>
        ELSE LET lo == CHOOSE i \in keep : \A j \in keep : i <= j
                 hi == CHOOSE i \in keep : \A j \in keep : i >= j
             IN  SubSeq(s, lo, hi)

Amp == <<"&","a","m","p",";">>

\* re.sub(r'&amp;', '&', s): leftmost non-overlapping replacement
RECURSIVE SubAmp(_)
SubAmp(s) ==
    IF s = <<>> THEN <<>>
    ELSE IF StartsWith(s, Amp) THEN <<"&">> \o SubAmp(SubSeq(s, 6, Len(s)))
    ELSE <<s[1]>> \o SubAmp(Tail(s))

\* urllib.parse.unquote on the escapes of printable ASCII that the inputs use
PercentCodes == { <<"2","0">>, <<"2","6">>, <<"2","F">>, <<"3","A">> }
PercentChar(h) ==
    CASE h = <<"2","0">> -> " "
      [] h = <<"2","6">> -> "&"
      [] h = <<"2","F">> -> "/"
      [] h = <<"3","A">> -> ":"

RECURSIVE Unquote(_)
Unquote(s) ==
    IF s = <<>> THEN <<>>
    ELSE IF s[1] = "%" /\ Len(s) >= 3 /\ SubSeq(s, 2, 3) \in PercentCodes
         THEN <<PercentChar(SubSeq(s, 2, 3))>> \o Unquote(SubSeq(s, 4, Len(s)))
    ELSE <<s[1]>> \o Unquote(Tail(s))

\* urllib.parse.urlparse: the scheme and netloc components (lower-case input)
SchemeChars == Letters \cup Digits \cup {"+", "-", "."}
NetlocEnd == {"/", "?", "#"}

FirstIndex(s, cs, from) ==
    LET hits == {i \in from..Len(s) : s[i] \in cs}
    IN  IF hits = {} THEN 0 ELSE CHOOSE i \in hits : \A j \in hits : i <= j

UrlParse(url) ==
    LET i == FirstIndex(url, {":"}, 1)
        hasScheme == /\ i > 1
                     /\ url[1] \in Letters
                     /\ \A k \in 1..(i - 1) : url[k] \in SchemeChars
        scheme == IF hasScheme THEN SubSeq(url, 1, i - 1) ELSE <<>>
        rest == IF hasScheme THEN SubSeq(url, i + 1, Len(url)) ELSE url
        e == FirstIndex(rest, NetlocEnd, 3)
        netloc == IF StartsWith(rest, <<"/","/">>)
                  THEN SubSeq(rest, 3, IF e = 0 THEN Len(rest) ELSE e - 1)
                  ELSE <<>>
    IN  [scheme |-> scheme, netloc |-> netloc]

Https == <<"h","t","t","p","s",":","/","/">>
Http == <<"h","t","t","p",":","/","/">>

(***************************************************************************)
(* ContentScraper._clean_url                                               *)
(***************************************************************************)
\* the string _clean_url holds after strip, entity decoding and unquote
Decoded(url) == Unquote(SubAmp(Strip(url)))

_clean_url(url) ==
    LET u == Decoded(url)
        parsed == UrlParse(u)
        u2 == IF parsed.scheme = <<>> THEN Https \o u ELSE u
    IN  IF parsed.netloc = <<>> THEN None ELSE Some(u2)


\* raw strings handed to _clean_url: search-result texts and hrefs
XCom == <<"x",".","c","o","m">>
ExampleComA == <<"e","x","a","m","p","l","e",".","c","o","m","/","a">>
NotAUrl == <<"n","o","t"," ","a"," ","u","r","l">>
HttpXComAmpB == Http \o XCom \o <<"/","a">> \o Amp \o <<"b">>

RawLead == { <<>>, <<" ">> }
RawScheme == { <<>>, <<"h","t","t","p",":">>, <<"h","t","t","p","s",":">> }
RawSlashes == { <<>>, <<"/","/">> }
RawHost == { <<>>, XCom }
RawPath == { <<>>, <<"/","a">>, <<"/","a">> \o Amp \o <<"b">>,
             <<"/","a","%","2","6","b">>, <<"%","2","F","a">>, <<":","8","0">> }
RawTrail == { <<>>, <<"\n">> }

RawUrls ==
    { l \o sc \o sl \o h \o p \o t :
        l \in RawLead, sc \in RawScheme, sl \in RawSlashes,
        h \in RawHost, p \in RawPath, t \in RawTrail }
    \cup { ExampleComA, NotAUrl, HttpXComAmpB }

UrlIdle == u_pc = "idle" /\ u_raw = <<>> /\ u_res = None

UrlInit == u_pc = "call" /\ u_raw \in RawUrls /\ u_res = None

CleanUrl ==
    /\ u_pc = "call"
    /\ u_res' = _clean_url(u_raw)
    /\ u_pc' = "done"
    /\ UNCHANGED <<u_raw, scrapeVars, searchVars, extractVars, splitVars, ragVars>>

(***************************************************************************)
(* ContentScraper._search_duckduckgo                                       *)
(* A result page is [texts, hrefs]: the get_text() of its .result__url     *)
(* elements and the href of its .result__a elements, in document order.    *)
(***************************************************************************)
ExcludedDomains ==
    { <<"g","o","o","g","l","e",".","c","o","m">>,
      <<"y","o","u","t","u","b","e",".","c","o","m">>,
      <<"f","a","c","e","b","o","o","k",".","c","o","m">>,
      <<"t","w","i","t","t","e","r",".","c","o","m">> }

\* the raw strings the result pages of specification SpecSearch hold: a URL,
\* the same URL with leading blank, a URL on an excluded domain, a URL with
\* an HTML entity, and a string without scheme
GoogleCom == <<"g","o","o","g","l","e",".","c","o","m">>
SearchRaws ==
    { Https \o XCom \o <<"/","a">>,
      <<" ">> \o Https \o XCom \o <<"/","a">>,
      Https \o <<"m","y">> \o GoogleCom \o <<"/">>,
      HttpXComAmpB,
      XCom \o <<"/","a">> }

\* lines 90-91 and 100-101: any(excluded in domain ...)
OnExcludedDomain(url) ==
    \E excluded \in ExcludedDomains : IsIn(excluded, UrlParse(url).netloc)

\* _clean_url and the domain test are pure; their values on SearchRaws are
\* computed once and looked up, any other string is computed on the spot
CleanedRaws == [raw \in SearchRaws |-> _clean_url(raw)]
Cleaned(raw) == IF raw \in SearchRaws THEN CleanedRaws[raw] ELSE _clean_url(raw)
CleanedUrls == { Val(CleanedRaws[raw]) : raw \in { r \in SearchRaws : CleanedRaws[r] # None } }
ExcludedUrls == { url \in CleanedUrls : OnExcludedDomain(url) }
Excluded(url) == IF url \in CleanedUrls THEN url \in ExcludedUrls ELSE OnExcludedDomain(url)

\* lines 86-92 and 97-102: the test one raw string passes before links.add
Kept(raw) ==
    /\ raw # <<>>
    /\ Cleaned(raw) # None
    /\ ~ Excluded(Val(Cleaned(raw)))

\* the set `links` after both scans
Links(page) ==
    { Val(Cleaned(page.texts[i])) : i \in {j \in DOMAIN page.texts : Kept(page.texts[j])} }
    \cup
    { Val(Cleaned(page.hrefs[i])) : i \in {j \in DOMAIN page.hrefs : Kept(page.hrefs[j])} }

Min(a, b) == IF a <= b THEN a ELSE b

\* list(s): the elements of a set in an order the build chooses (string
\* hashing is randomised per process), so every ordering is possible
ListOfSet(S) ==
    { f \in [1..Cardinality(S) -> S] : \A i, j \in DOMAIN f : i # j => f[i] # f[j] }

\* the lists one call can return; resp is None when _make_request failed
_search_duckduckgo(resp, max_results) ==
    IF resp = None THEN { <<>> }
    ELSE { SubSeq(l, 1, Min(max_results, Len(l))) : l \in ListOfSet(Links(Val(resp))) }

(***************************************************************************)
(* Parsed pages.  soup is [body, elems]: whether the document has a <body> *)
(* tag, and its content elements in document order.  An element is         *)
(* [kind, leaves] where kind is the one selector it matches                *)
(* ("div" matches none) and leaves are its children in document order:     *)
(* [kind, n] with kind "text" for a text node of n non-blank characters,   *)
(* else the tag or class of a child element holding such a text node.      *)
(* A text (the result of get_text) is the sequence of its text nodes       *)
(* <<element index, leaf index, n>>, joined by one '\n' each.              *)
(***************************************************************************)
UnwantedTags == {"script", "style", "nav", "header", "footer", "iframe", "aside"}

selectors ==
    << "article", "main", ".post-content", ".entry-content", ".article-content",
       ".content", "#content", ".post", "div[role=main]", ".main-content" >>

MinContentLen == 500

RECURSIVE SumLen(_)
SumLen(text) == IF text = <<>> THEN 0 ELSE text[1][3] + SumLen(Tail(text))

\* len(text) of a joined, stripped text
TextLen(text) == IF text = <<>> THEN 0 ELSE SumLen(text) + (Len(text) - 1)

\* element.get_text(separator='\n').strip() of element b of soup
GetText(soup, b) ==
    LET ls == soup.elems[b].leaves
    IN  [i \in 1..Len(ls) |-> <<b, i, ls[i].n>>]

RECURSIVE Concat(_)
Concat(ss) == IF ss = <<>> THEN <<>> ELSE ss[1] \o Concat(Tail(ss))

\* body.get_text(separator='\n').strip()
BodyText(soup) == Concat([b \in 1..Len(soup.elems) |-> GetText(soup, b)])

\* soup after decompose() of every element of soup whose tag is in kinds
DecomposeAll(soup, kinds) ==
    [body |-> soup.body,
     elems |-> [b \in 1..Len(soup.elems) |->
        IF soup.elems[b].kind \in kinds
        THEN [kind |-> "removed", leaves |-> <<>>]
        ELSE [kind |-> soup.elems[b].kind,
              leaves |-> SelectSeq(soup.elems[b].leaves, LAMBDA l : l.kind \notin kinds)]]]

\* soup after decompose() of the children of element b whose class is in kinds
DecomposeIn(soup, b, kinds) ==
    [body |-> soup.body,
     elems |-> [soup.elems EXCEPT ![b].leaves = SelectSeq(@, LAMBDA l : l.kind \notin kinds)]]

\* soup.find / soup.select_one: index of the first element of that kind, 0 if none
FindFirst(soup, kind) ==
    LET hits == {b \in 1..Len(soup.elems) : soup.elems[b].kind = kind}
    IN  IF hits = {} THEN 0 ELSE CHOOSE b \in hits : \A c \in hits : b <= c

(***************************************************************************)
(* ContentScraper._scrape_wikisource, _scrape_gutenberg, _extract_content  *)
(* Each yields [content, soup]: the Optional text returned and the soup    *)
(* as the call leaves it.                                                  *)
(***************************************************************************)
_scrape_wikisource(soup) ==
    LET content_div == FindFirst(soup, "mw-parser-output")
        stripped == DecomposeIn(soup, content_div, {"reference", "mw-editsection"})
    IN  IF content_div = 0 THEN [content |-> None, soup |-> soup]
        ELSE [content |-> Some(GetText(stripped, content_div)), soup |-> stripped]

_scrape_gutenberg(soup) ==
    LET content_div == FindFirst(soup, "text")
    IN  IF content_div = 0 THEN [content |-> None, soup |-> soup]
        ELSE [content |-> Some(GetText(soup, content_div)), soup |-> soup]

\* line 153 and line 162: the test an extracted text must pass
SubstantialAnyLength(text) == TRUE
SubstantialAtThreshold(text) == TextLen(text) >= MinContentLen
Substantial(text) == TextLen(text) > MinContentLen

_extract_content(soup) ==
    LET stripped == DecomposeAll(soup, UnwantedTags)
        accepted == { k \in DOMAIN selectors :
                        /\ FindFirst(stripped, selectors[k]) # 0
                        /\ Substantial(GetText(stripped, FindFirst(stripped, selectors[k]))) }
        first == CHOOSE k \in accepted : \A j \in accepted : k <= j
    IN  IF accepted # {}
        THEN [content |-> Some(GetText(stripped, FindFirst(stripped, selectors[first]))),
              soup |-> stripped]
        ELSE IF stripped.body /\ Substantial(BodyText(stripped))
        THEN [content |-> Some(BodyText(stripped)), soup |-> stripped]
        ELSE [content |-> None, soup |-> stripped]

\* Python truthiness of an Optional[str]: None and '' are false
TruthyNotNone(content) == content # None
Truthy(content) == content # None /\ Val(content) # <<>>

(***************************************************************************)
(* ContentScraper.scrape_content, scrape_person_content, run.scrape_mode   *)
(***************************************************************************)
max_primary_sources == 5
max_secondary_sources == 2

\* number of page URLs the search engine can return
NumUrls == 5

Wikisource == <<"w","i","k","i","s","o","u","r","c","e",".","o","r","g">>
Gutenberg == <<"g","u","t","e","n","b","e","r","g",".","o","r","g">>
DigitChars == <<"1","2","3","4","5","6","7","8","9">>

HostOf(k) ==
    CASE k % 3 = 1 -> <<"e","n",".">> \o Wikisource
      [] k % 3 = 2 -> <<"w","w","w",".">> \o Gutenberg
      [] OTHER -> XCom

PageUrl(k) == Https \o HostOf(k) \o <<"/", DigitChars[k]>>
Urls == { PageUrl(k) : k \in 1..NumUrls }

\* self.reliable_sources, in dict order
reliable_sources ==
    << [known_domain |-> Wikisource, scraper_func |-> "_scrape_wikisource"],
       [known_domain |-> Gutenberg, scraper_func |-> "_scrape_gutenberg"] >>

CallScraper(scraper_func, soup) ==
    IF scraper_func = "_scrape_wikisource" THEN _scrape_wikisource(soup)
    ELSE _scrape_gutenberg(soup)

Names == {"Marcus Aurelius", "Primary Colors"}

\* the f-strings of lines 182-193, as their words
primary_queries(n) ==
    << <<"site:wikisource.org", n, "writings">>,
       <<"site:gutenberg.org", n, "works">>,
       <<n, "original", "writings">>,
       <<n, "letters", "correspondence", "primary", "source">> >>

secondary_queries(n) ==
    << <<n, "philosophical", "writings", "analysis">>,
       <<n, "historical", "biography">> >>

\* 'primary' in query.lower()
HasPrimary(q) == \E i \in DOMAIN q : q[i] \in {"primary", "Primary Colors"}

\* pages a fetched URL can hold; a response's text is the page's number
Leaf(k, n) == [kind |-> k, n |-> n]
Elem(k, leaves) == [kind |-> k, leaves |-> leaves]
ScrapePages ==
    << [body |-> TRUE, elems |->
        << Elem("mw-parser-output", <<Leaf("text", 10), Leaf("reference", 3)>>),
           Elem("text", <<Leaf("text", 20)>>) >>],
       [body |-> TRUE, elems |->
        << Elem("mw-parser-output", <<Leaf("reference", 3)>>),
           Elem("nav", <<Leaf("text", 40)>>),
           Elem("article", <<Leaf("text", MinContentLen + 1)>>) >>] >>

\* BeautifulSoup(response.text, 'html.parser')
BeautifulSoup(response) == ScrapePages[Val(response)]

\* _make_request(url): a response holding a page, or None
_make_request(url) == { None } \cup { Some(p) : p \in DOMAIN ScrapePages }

\* result pages the search engine can answer query number k (1..4 primary,
\* 5..6 secondary) with: up to two result links out of three candidate URLs
\* of that query, neighbouring queries sharing candidates
Candidates(k) == { PageUrl(((k + d - 1) % NumUrls) + 1) : d \in 0..2 }
SearchHrefs(k) ==
    { <<>> } \cup { <<a>> : a \in Candidates(k) }
             \cup { <<a, b>> : a \in Candidates(k), b \in Candidates(k) }
SearchResponses(k) ==
    { None } \cup { Some([texts |-> <<>>, hrefs |-> h]) : h \in SearchHrefs(k) }

\* the lists self._search_duckduckgo(query, max_results) can return for
\* query number k
SearchReturns ==
    [k \in 1..6 |-> [m \in 1..2 |->
        UNION { _search_duckduckgo(resp, m) : resp \in SearchResponses(k) }]]

Entry(url, content, content_type, person) ==
    [source_url |-> url, content |-> content,
     content_type |-> content_type, person |-> person]

\* lines 198 and 257: the test that ends a phase's query loop
CapReachedStrict(count, cap) == count > cap
CapReached(count, cap) == count >= cap

\* lines 205 and 264: the test that passes over a URL without fetching it
SkipUrlNoSeenCheck(url, seen, count, cap) == count >= cap
SkipUrl(url, seen, count, cap) == url \in seen \/ count >= cap

\* lines 215-251: the entries one fetched primary URL appends
PrimaryEntries(url, soup, q, person) ==
    LET domain == UrlParse(url).netloc
        known == { k \in DOMAIN reliable_sources :
                     IsIn(reliable_sources[k].known_domain, domain) }
        k1 == CHOOSE k \in known : \A j \in known : k <= j
        r1 == IF known = {} THEN [content |-> None, soup |-> soup]
              ELSE CallScraper(reliable_sources[k1].scraper_func, soup)
        e1 == IF Truthy(r1.content)
              THEN << Entry(url, Val(r1.content), "primary_source", person) >>
              ELSE << >>
        r2 == _extract_content(r1.soup)
        e2 == IF ~Truthy(r1.content) /\ HasPrimary(q) /\ Truthy(r2.content)
              THEN << Entry(url, Val(r2.content), "primary_source", person) >>
              ELSE << >>
    IN  e1 \o e2

\* lines 274-287: the entries one fetched secondary URL appends
SecondaryEntriesOther(url, soup, person) ==
    LET r == _extract_content(soup)
    IN  IF Truthy(r.content)
        THEN << Entry(url, Val(r.content), "other", person) >>
        ELSE << >>
SecondaryEntries(url, soup, person) ==
    LET r == _extract_content(soup)
    IN  IF Truthy(r.content)
        THEN << Entry(url, Val(r.content), "secondary_source", person) >>
        ELSE << >>

\* parameters scrape_person_content declares (line 292)
ScrapePersonContentParams == {"name", "output_dir"}
\* arguments run.scrape_mode passes (run.py line 33)
ScrapeModeArgs == {"name", "output_dir", "max_articles"}

ScrapeIdle ==
    /\ pc = "idle" /\ entry = "none" /\ name = "none"
    /\ qi = 0 /\ query = << >> /\ urls = << >>
    /\ seen_urls = {} /\ collected_content = << >>
    /\ primary_count = 0 /\ secondary_count = 0
    /\ fetches = << >> /\ outcome = << >> /\ searches = << >>

ScrapeInit ==
    /\ pc = "start"
    /\ entry \in {"scrape_mode", "scrape_person_content"}
    /\ name \in Names
    /\ qi = 0 /\ query = << >> /\ urls = << >>
    /\ seen_urls = {} /\ collected_content = << >>
    /\ primary_count = 0 /\ secondary_count = 0
    /\ fetches = [u \in Urls |-> 0]
    /\ outcome = [u \in Urls |-> None]
    /\ searches = [ph \in {"primary", "secondary"} |-> 0]

\* run.py lines 30-37: the call raises TypeError for an argument the callee
\* does not declare; scrape_mode logs it and exits with status 1
scrape_mode ==
    /\ pc = "start" /\ entry = "scrape_mode"
    /\ pc' = IF ScrapeModeArgs \subseteq ScrapePersonContentParams
             THEN "primary_query" ELSE "exit1"
    /\ qi' = 1
    /\ UNCHANGED <<entry, name, query, urls, seen_urls, collected_content,
                   primary_count, secondary_count, fetches, outcome, searches>>
    /\ UNCHANGED <<urlVars, searchVars, extractVars, splitVars, ragVars>>

\* scraper.py lines 303-304 and 177-196: a direct call starts the run
scrape_person_content ==
    /\ pc = "start" /\ entry = "scrape_person_content"
    /\ pc' = "primary_query"
    /\ qi' = 1
    /\ collected_content' = << >> /\ seen_urls' = {} /\ primary_count' = 0
    /\ UNCHANGED <<entry, name, query, urls, secondary_count, fetches, outcome, searches>>
    /\ UNCHANGED <<urlVars, searchVars, extractVars, splitVars, ragVars>>

\* lines 197-202: one turn of the primary `for query` loop
PrimaryQuery ==
    /\ pc = "primary_query"
    /\ IF qi > Len(primary_queries(name)) \/ CapReached(primary_count, max_primary_sources)
       THEN /\ pc' = "secondary_entry"
            /\ UNCHANGED <<qi, query, urls, searches>>
       ELSE /\ urls' \in SearchReturns[qi][2]
            /\ query' = primary_queries(name)[qi]
            /\ searches' = [searches EXCEPT !["primary"] = @ + 1]
            /\ pc' = "primary_urls"
            /\ UNCHANGED qi
    /\ UNCHANGED <<entry, name, seen_urls, collected_content,
                   primary_count, secondary_count, fetches, outcome>>
    /\ UNCHANGED <<urlVars, searchVars, extractVars, splitVars, ragVars>>

\* lines 204-251: one turn of the primary `for url` loop
PrimaryUrl ==
    /\ pc = "primary_urls"
    /\ IF urls = << >>
       THEN /\ qi' = qi + 1
            /\ pc' = "primary_query"
            /\ UNCHANGED <<urls, seen_urls, collected_content, primary_count,
                           fetches, outcome>>
       ELSE LET url == Head(urls)
            IN  /\ urls' = Tail(urls)
                /\ UNCHANGED <<qi, pc>>
                /\ IF SkipUrl(url, seen_urls, primary_count, max_primary_sources)
                   THEN UNCHANGED <<seen_urls, collected_content, primary_count,
                                    fetches, outcome>>
                   ELSE \E response \in _make_request(url) :
                        LET entries == IF response = None THEN << >>
                                       ELSE PrimaryEntries(url, BeautifulSoup(response), query, name)
                        IN  /\ seen_urls' = seen_urls \cup {url}
                            /\ fetches' = [fetches EXCEPT ![url] = @ + 1]
                            /\ outcome' = [outcome EXCEPT ![url] =
                                   Some([response |-> response, phase |-> "primary",
                                         generic |-> HasPrimary(query)])]
                            /\ collected_content' = collected_content \o entries
                            /\ primary_count' = primary_count + Len(entries)
    /\ UNCHANGED <<entry, name, query, secondary_count, searches>>
    /\ UNCHANGED <<urlVars, searchVars, extractVars, splitVars, ragVars>>

\* lines 254-255: entering the secondary phase
SecondaryEntry ==
    /\ pc = "secondary_entry"
    /\ secondary_count' = 0
    /\ IF Len(collected_content) < max_primary_sources + max_secondary_sources
       THEN pc' = "secondary_query" /\ qi' = 1
       ELSE pc' = "done" /\ UNCHANGED qi
    /\ UNCHANGED <<entry, name, query, urls, seen_urls, collected_content,
                   primary_count, fetches, outcome, searches>>
    /\ UNCHANGED <<urlVars, searchVars, extractVars, splitVars, ragVars>>

\* lines 256-261: one turn of the secondary `for query` loop
SecondaryQuery ==
    /\ pc = "secondary_query"
    /\ IF qi > Len(secondary_queries(name))
          \/ CapReached(secondary_count, max_secondary_sources)
       THEN /\ pc' = "done"
            /\ UNCHANGED <<qi, query, urls, searches>>
       ELSE /\ urls' \in SearchReturns[Len(primary_queries(name)) + qi][1]
            /\ query' = secondary_queries(name)[qi]
            /\ searches' = [searches EXCEPT !["secondary"] = @ + 1]
            /\ pc' = "secondary_urls"
            /\ UNCHANGED qi
    /\ UNCHANGED <<entry, name, seen_urls, collected_content,
                   primary_count, secondary_count, fetches, outcome>>
    /\ UNCHANGED <<urlVars, searchVars, extractVars, splitVars, ragVars>>

\* lines 263-287: one turn of the secondary `for url` loop
SecondaryUrl ==
    /\ pc = "secondary_urls"
    /\ IF urls = << >>
       THEN /\ qi' = qi + 1
            /\ pc' = "secondary_query"
            /\ UNCHANGED <<urls, seen_urls, collected_content, secondary_count,
                           fetches, outcome>>
       ELSE LET url == Head(urls)
            IN  /\ urls' = Tail(urls)
                /\ UNCHANGED <<qi, pc>>
                /\ IF SkipUrl(url, seen_urls, secondary_count, max_secondary_sources)
                   THEN UNCHANGED <<seen_urls, collected_content, secondary_count,
                                    fetches, outcome>>
                   ELSE \E response \in _make_request(url) :
                        LET entries == IF response = None THEN << >>
                                       ELSE SecondaryEntries(url, BeautifulSoup(response), name)
                        IN  /\ seen_urls' = seen_urls \cup {url}
                            /\ fetches' = [fetches EXCEPT ![url] = @ + 1]
                            /\ outcome' = [outcome EXCEPT ![url] =
                                   Some([response |-> response, phase |-> "secondary",
                                         generic |-> TRUE])]
                            /\ collected_content' = collected_content \o entries
                            /\ secondary_count' = secondary_count + Len(entries)
    /\ UNCHANGED <<entry, name, query, primary_count, searches>>
    /\ UNCHANGED <<urlVars, searchVars, extractVars, splitVars, ragVars>>

SearchIdle == s_pc = "idle" /\ s_texts = << >> /\ s_hrefs = << >> /\ s_max = 0 /\ s_res = << >>
ExtractIdle == e_pc = "idle" /\ e_page = << >> /\ e_res = None
SplitIdle == t_pc = "idle" /\ t_text = << >> /\ t_size = 0 /\ t_chunks = << >>
LoadIdle ==
    /\ l_pc = "idle" /\ l_person = << >> /\ l_file = << >>
    /\ l_idx = 0 /\ l_chunks = << >> /\ l_chunk_idx = 0
AnswerIdle ==
    /\ a_pc = "idle" /\ a_person = << >> /\ a_n = 0
    /\ a_results = << >> /\ a_answer = << >> /\ a_calls = << >>
RagIdle == collection = << >> /\ LoadIdle /\ AnswerIdle

Init == ScrapeInit /\ UrlIdle /\ SearchIdle /\ ExtractIdle /\ SplitIdle /\ RagIdle

Next ==
    \/ scrape_mode
    \/ scrape_person_content
    \/ PrimaryQuery
    \/ PrimaryUrl
    \/ SecondaryEntry
    \/ SecondaryQuery
    \/ SecondaryUrl

Spec == Init /\ [][Next]_vars

InitUrl == ScrapeIdle /\ UrlInit /\ SearchIdle /\ ExtractIdle /\ SplitIdle /\ RagIdle
SpecUrl == InitUrl /\ [][CleanUrl]_vars

(***************************************************************************)
(* Properties of one scrape_content run (specification Spec)               *)
(***************************************************************************)
SourceUrls == { collected_content[i].source_url : i \in DOMAIN collected_content }
RecordsOf(u) == { i \in DOMAIN collected_content : collected_content[i].source_url = u }
PhaseOf(i) == Val(outcome[collected_content[i].source_url]).phase
NumAdded(ph) == Cardinality({ i \in DOMAIN collected_content : PhaseOf(i) = ph })
Finished == pc \in {"done", "exit1"}

\* C1: within one run every URL is fetched at most once and is the
\* source_url of at most one record: the source_url values of the collected
\* list are pairwise distinct, whatever the searches return
C1_UrlFetchedAndRecordedOnce ==
    /\ \A u \in Urls : fetches[u] <= 1 /\ Cardinality(RecordsOf(u)) <= 1
    /\ \A i, j \in DOMAIN collected_content :
          i # j => collected_content[i].source_url # collected_content[j].source_url

\* a secondary query returns a URL that the primary phase fetched and recorded
C1_Witness ==
    /\ pc = "secondary_urls" /\ urls # << >>
    /\ Head(urls) \in seen_urls
    /\ fetches[Head(urls)] = 1
    /\ \E i \in RecordsOf(Head(urls)) : PhaseOf(i) = "primary"

InPhase(ph) ==
    IF ph = "primary" THEN pc \in {"primary_query", "primary_urls"}
    ELSE pc \in {"secondary_query", "secondary_urls"}

ExtractionYields ==
    [u \in Urls, p \in DOMAIN ScrapePages, ph \in {"primary", "secondary"}, g \in BOOLEAN |->
        LET soup == ScrapePages[p]
            domain == UrlParse(u).netloc
            known == IF IsIn(Wikisource, domain) THEN _scrape_wikisource(soup)
                     ELSE IF IsIn(Gutenberg, domain) THEN _scrape_gutenberg(soup)
                     ELSE [content |-> None, soup |-> soup]
            nonEmpty(c) == c # None /\ Val(c) # << >>
        IN  IF ph = "primary"
            THEN \/ nonEmpty(known.content)
                 \/ g /\ nonEmpty(_extract_content(known.soup).content)
            ELSE nonEmpty(_extract_content(soup).content)]

\* whether the fetch of u returned a page and its extraction a text
Succeeded(u) ==
    /\ outcome[u] # None
    /\ Val(outcome[u]).response # None
    /\ LET o == Val(outcome[u])
       IN  ExtractionYields[u, Val(o.response), o.phase, o.generic]

FetchFailed(u) == outcome[u] # None /\ Val(outcome[u]).response = None

\* C3: whatever fetches and extractions fail, a started run can always take
\* its next step until it returns, and it returns only after both phases;
\* the URLs of the returned records are exactly the URLs whose fetch and
\* extraction succeeded; a failed URL has no record and is fetched once only
C3_FailuresIsolated ==
    /\ Finished \/ ENABLED Next
    /\ pc = "done" => searches["primary"] >= 1 /\ searches["secondary"] >= 1
    /\ pc \notin {"start", "exit1"} =>
          /\ SourceUrls = { u \in Urls : Succeeded(u) }
          /\ \A u \in Urls :
                (outcome[u] # None /\ ~Succeeded(u)) =>
                    /\ RecordsOf(u) = {}
                    /\ fetches[u] = 1
                    /\ u \in seen_urls

\* the run ended after a failed fetch and a failed extraction in the primary
\* phase, with a record added in the secondary phase after them
C3_Witness ==
    /\ pc = "done"
    /\ \E u \in Urls : FetchFailed(u) /\ Val(outcome[u]).phase = "primary"
    /\ \E u \in Urls : /\ outcome[u] # None /\ ~FetchFailed(u) /\ ~Succeeded(u)
                       /\ Val(outcome[u]).phase = "primary"
    /\ NumAdded("secondary") >= 1

\* whether the known-domain rule registered for u's domain yields a
\* non-empty text on page number p
KnownRuleYields ==
    [u \in Urls, p \in DOMAIN ScrapePages |->
        LET domain == UrlParse(u).netloc
            soup == ScrapePages[p]
        IN  \/ IsIn(Wikisource, domain)
               /\ _scrape_wikisource(soup).content \notin {None, Some(<< >>)}
            \/ ~IsIn(Wikisource, domain) /\ IsIn(Gutenberg, domain)
               /\ _scrape_gutenberg(soup).content \notin {None, Some(<< >>)}]

\* whether record i was produced by generic extraction: in the secondary
\* phase, or in the primary phase when the known-domain rule gave no text
ByGenericExtraction(i) ==
    LET u == collected_content[i].source_url
    IN  \/ PhaseOf(i) = "secondary"
        \/ ~KnownRuleYields[u, Val(Val(outcome[u]).response)]

\* C4 as stated: every returned record, from known-domain or from generic
\* extraction, has content longer than 500 characters
C4_EveryContentAboveThreshold ==
    \A i \in DOMAIN collected_content :
        TextLen(collected_content[i].content) > MinContentLen

\* C4 as amended: every returned record has non-empty content, and every
\* record produced by generic extraction has content longer than 500
\* characters; a known-domain record may be of any non-empty length
C4_GenericContentAboveThreshold ==
    \A i \in DOMAIN collected_content :
        /\ TextLen(collected_content[i].content) >= 1
        /\ ByGenericExtraction(i) =>
              TextLen(collected_content[i].content) > MinContentLen

\* the returned list holds a known-domain record of at most 500 characters
\* and records made by generic extraction in each phase
C4_Witness ==
    /\ pc = "done"
    /\ \E i \in DOMAIN collected_content :
          /\ TextLen(collected_content[i].content) <= MinContentLen
          /\ ~ByGenericExtraction(i)
    /\ \E i \in DOMAIN collected_content :
          PhaseOf(i) = "primary" /\ ByGenericExtraction(i)
    /\ \E i \in DOMAIN collected_content : PhaseOf(i) = "secondary"

KeywordTypes ==
    {"speech", "writing", "correspondence", "interview", "primary_source", "other"}

\* C5 as stated: a primary-phase record has content_type 'primary_source'
\* and a secondary-phase record has one of the keyword classes speech,
\* writing, correspondence, interview, primary_source, other
C5_SecondaryTypeByKeywords ==
    \A i \in DOMAIN collected_content :
        /\ PhaseOf(i) = "primary" => collected_content[i].content_type = "primary_source"
        /\ PhaseOf(i) = "secondary" => collected_content[i].content_type \in KeywordTypes

\* C5 as amended: a primary-phase record has content_type 'primary_source'
\* and a secondary-phase record has content_type 'secondary_source',
\* whatever the words of the query that found it
C5_TypeByPhase ==
    \A i \in DOMAIN collected_content :
        /\ PhaseOf(i) = "primary" => collected_content[i].content_type = "primary_source"
        /\ PhaseOf(i) = "secondary" => collected_content[i].content_type = "secondary_source"

\* the list holds a primary record and a secondary record found by the
\* query "... philosophical writings analysis"
C5_Witness ==
    /\ pc = "secondary_urls"
    /\ \E i \in DOMAIN collected_content : PhaseOf(i) = "primary"
    /\ \E i \in DOMAIN collected_content :
          PhaseOf(i) = "secondary" /\ "writings" \in { query[j] : j \in DOMAIN query }

\* C6 as stated: the collector called with max_articles=10 (as
\* run.scrape_mode calls it) ends having returned exactly 7 records with
\* pairwise distinct source_url
C6_SevenRecordsWithMaxArticles ==
    (entry = "scrape_mode" /\ Finished) =>
        /\ Len(collected_content) = 7
        /\ Cardinality(SourceUrls) = 7

(***************************************************************************)
(* One call of _search_duckduckgo on a result page (specification          *)
(* SpecSearch)                                                             *)
(***************************************************************************)
\* most .result__url and most .result__a elements on a result page
MaxResultElems == 2
\* default of max_results
DefaultMaxResults == 3

RawLists == UNION { [1..n -> SearchRaws] : n \in 0..MaxResultElems }

SearchInit ==
    /\ s_pc = "call"
    /\ s_texts \in RawLists
    /\ s_hrefs \in RawLists
    /\ s_max \in 1..DefaultMaxResults
    /\ s_res = << >>

\* lines 75-104: one call; the request for the result page may fail
SearchDuckDuckGo ==
    /\ s_pc = "call"
    /\ \E resp \in { None, Some([texts |-> s_texts, hrefs |-> s_hrefs]) } :
          /\ s_res' \in _search_duckduckgo(resp, s_max)
          /\ s_pc' = IF resp = None THEN "failed" ELSE "done"
    /\ UNCHANGED <<s_texts, s_hrefs, s_max>>
    /\ UNCHANGED <<scrapeVars, urlVars, extractVars, splitVars, ragVars>>

InitSearch == ScrapeIdle /\ UrlIdle /\ SearchInit /\ ExtractIdle /\ SplitIdle /\ RagIdle
SpecSearch == InitSearch /\ [][SearchDuckDuckGo]_vars

\* the normalized, not excluded URLs of the page in order of first
\* discovery: the .result__url scan, then the .result__a scan
RECURSIVE Discovered(_, _)
Discovered(raws, acc) ==
    IF raws = << >> THEN acc
    ELSE LET c == Cleaned(Head(raws))
             fresh == /\ c # None
                      /\ ~Excluded(Val(c))
                      /\ \A i \in DOMAIN acc : acc[i] # Val(c)
         IN  Discovered(Tail(raws), IF fresh THEN Append(acc, Val(c)) ELSE acc)

DiscoveryOrder == Discovered(s_texts \o s_hrefs, << >>)

SearchResultSound ==
    /\ \A i, j \in DOMAIN s_res : i # j => s_res[i] # s_res[j]
    /\ \A i \in DOMAIN s_res :
          /\ \E k \in DOMAIN DiscoveryOrder : DiscoveryOrder[k] = s_res[i]
          /\ ~Excluded(s_res[i])
    /\ Len(s_res) <= s_max

\* C8: the returned list holds pairwise distinct normalized URLs, none on an
\* excluded domain, at most max_results of them, and it is the first
\* max_results such URLs in order of first discovery
C8_FirstDiscoveredInOrder ==
    s_pc = "done" =>
        /\ SearchResultSound
        /\ s_res = SubSeq(DiscoveryOrder, 1, Min(s_max, Len(DiscoveryOrder)))

(***************************************************************************)
(* One call of _extract_content on a parsed page (specification            *)
(* SpecExtract)                                                            *)
(***************************************************************************)
\* most content elements on a page
MaxElems == 2

ExtractKinds == {"article", "main", ".content", "div", "nav"}
ExtractLens == {250, MinContentLen, MinContentLen + 1}
ExtractElems ==
    { Elem(k, <<Leaf("text", n)>>) : k \in ExtractKinds, n \in ExtractLens }
    \cup { Elem("article", <<Leaf("text", MinContentLen), Leaf("aside", 30)>>) }
ExtractPages ==
    { [body |-> b, elems |-> es] :
        b \in BOOLEAN, es \in UNION { [1..n -> ExtractElems] : n \in 0..MaxElems } }

ExtractInit == e_pc = "call" /\ e_page \in ExtractPages /\ e_res = None

\* lines 126-165
ExtractContent ==
    /\ e_pc = "call"
    /\ e_res' = _extract_content(e_page).content
    /\ e_pc' = "done"
    /\ UNCHANGED e_page
    /\ UNCHANGED <<scrapeVars, urlVars, searchVars, splitVars, ragVars>>

InitExtract == ScrapeIdle /\ UrlIdle /\ SearchIdle /\ ExtractInit /\ SplitIdle /\ RagIdle
SpecExtract == InitExtract /\ [][ExtractContent]_vars

\* the page with its script, style, nav, header, footer, iframe and aside
\* elements taken out
Shown == DecomposeAll(e_page, UnwantedTags)
ShownLen(b) == TextLen(GetText(Shown, b))
Articles == { b \in DOMAIN Shown.elems : Shown.elems[b].kind = "article" }
BodyLen == IF Shown.body THEN TextLen(BodyText(Shown)) ELSE 0

Probed == [k \in DOMAIN selectors |-> FindFirst(Shown, selectors[k])]

RECURSIVE SplitDot(_, _)
SplitDot(text, piece) ==
    LET dots == { i \in DOMAIN text : text[i] = "." }
    IN  IF dots = {} THEN << piece \o text >>
        ELSE LET d == CHOOSE i \in dots : \A j \in dots : i <= j
             IN  << piece \o SubSeq(text, 1, d - 1) >>
                 \o SplitDot(SubSeq(text, d + 1, Len(text)), << >>)

\* line 99: sentence.strip() + '.', for every piece
Sentences(text) ==
    LET pieces == SplitDot(text, << >>)
    IN  [i \in DOMAIN pieces |-> Strip(pieces[i]) \o <<".">>]

\* line 102: the test that closes the current chunk before a sentence
OverflowsAlone(current_size, sentence_size, chunk_size) == sentence_size > chunk_size
Overflows(current_size, sentence_size, chunk_size) ==
    current_size + sentence_size > chunk_size

\* lines 98-108: the loop over the sentences from index i on, with the
\* chunks closed so far, the open chunk and its size; each chunk is the
\* sequence of its sentences
RECURSIVE Accumulate(_, _, _, _, _, _)
Accumulate(sentences, i, chunks, current_chunk, current_size, chunk_size) ==
    IF i > Len(sentences)
    THEN (IF current_chunk # << >> THEN Append(chunks, current_chunk) ELSE chunks)
    ELSE LET sentence == sentences[i]
             sentence_size == Len(sentence)
             flush == Overflows(current_size, sentence_size, chunk_size)
                      /\ current_chunk # << >>
         IN  Accumulate(sentences, i + 1,
                        IF flush THEN Append(chunks, current_chunk) ELSE chunks,
                        (IF flush THEN << >> ELSE current_chunk) \o << sentence >>,
                        (IF flush THEN 0 ELSE current_size) + sentence_size,
                        chunk_size)

\* ' '.join(words)
RECURSIVE Join(_)
Join(words) ==
    IF words = << >> THEN << >>
    ELSE IF Len(words) = 1 THEN words[1]
    ELSE words[1] \o <<" ">> \o Join(Tail(words))

\* the chunks of a text, each as the sequence of its sentences
ChunkSentencesNoFinalFlush(text, chunk_size) ==
    LET all == Accumulate(Sentences(text), 1, << >>, << >>, 0, chunk_size)
    IN  SubSeq(all, 1, Len(all) - 1)
ChunkSentences(text, chunk_size) ==
    Accumulate(Sentences(text), 1, << >>, << >>, 0, chunk_size)

_split_text(text, chunk_size) ==
    LET groups == ChunkSentences(text, chunk_size)
    IN  [i \in DOMAIN groups |-> Join(groups[i])]

\* longest text and largest chunk_size
MaxTextLen == 5
MaxChunkSize == 4

TextChars == {"a", " ", "."}
Texts == UNION { [1..n -> TextChars] : n \in 0..MaxTextLen }

SplitInit ==
    /\ t_pc = "call"
    /\ t_text \in Texts
    /\ t_size \in 1..MaxChunkSize
    /\ t_chunks = << >>

\* lines 89-113
SplitText ==
    /\ t_pc = "call"
    /\ t_chunks' = _split_text(t_text, t_size)
    /\ t_pc' = "done"
    /\ UNCHANGED <<t_text, t_size>>
    /\ UNCHANGED <<scrapeVars, urlVars, searchVars, extractVars, ragVars>>

InitSplit == ScrapeIdle /\ UrlIdle /\ SearchIdle /\ ExtractIdle /\ SplitInit /\ RagIdle
SpecSplit == InitSplit /\ [][SplitText]_vars

\* the number of sentence fragments of an emitted chunk: each fragment ends
\* with the one period it holds
NumFragments(chunk) == Cardinality({ i \in DOMAIN chunk : chunk[i] = "." })

\* C10 as stated: every emitted chunk, joining spaces included, is at most
\* chunk_size characters long, except a chunk of exactly one fragment that
\* alone exceeds chunk_size
C10_ChunkWithinSize ==
    t_pc = "done" =>
        \A i \in DOMAIN t_chunks :
            \/ Len(t_chunks[i]) <= t_size
            \/ NumFragments(t_chunks[i]) = 1

\* C10 as amended: the fragments of every emitted chunk sum to at most
\* chunk_size characters, the joining spaces not counted, so the chunk is
\* at most chunk_size + (fragments - 1) characters long, except a chunk of
\* exactly one fragment that alone exceeds chunk_size
C10_FragmentsWithinSize ==
    t_pc = "done" =>
        \A i \in DOMAIN t_chunks :
            \/ Len(t_chunks[i]) - (NumFragments(t_chunks[i]) - 1) <= t_size
            \/ NumFragments(t_chunks[i]) = 1

\* a chunk of two fragments that is one character over chunk_size, after an
\* oversized fragment emitted alone
C10_Witness ==
    /\ t_pc = "done"
    /\ \E i \in DOMAIN t_chunks :
          NumFragments(t_chunks[i]) = 2 /\ Len(t_chunks[i]) = t_size + 1
    /\ \E i \in DOMAIN t_chunks :
          NumFragments(t_chunks[i]) = 1 /\ Len(t_chunks[i]) > t_size

\* C7 as stated: a string with no scheme gets 'https://' prepended and the
\* resulting URL is returned when it has a network location (one without
\* blanks; "example.com/a" gives "https://example.com/a"); a string with no network
\* location after normalization gives absence; '&amp;' is decoded to '&'
C7_SchemePrependedAndValidated ==
    u_pc = "done" =>
        LET d == Decoded(u_raw)
            normalized == IF UrlParse(d).scheme = << >> THEN Https \o d ELSE d
            netloc == UrlParse(normalized).netloc
        IN  /\ (netloc # << >> /\ \A i \in DOMAIN netloc : netloc[i] # " ")
                  => u_res = Some(normalized)
            /\ UrlParse(normalized).netloc = << >> => u_res = None
            /\ u_raw = ExampleComA => u_res = Some(Https \o ExampleComA)
            /\ u_raw = NotAUrl => u_res = None
            /\ u_raw = HttpXComAmpB =>
                  u_res = Some(Http \o XCom \o <<"/","a","&","b">>)

(***************************************************************************)
(* Reconstruction of the text from its chunks (specification SpecSplit)    *)
(***************************************************************************)
\* the sentence sequence of a string: the stripped pieces between its
\* periods that hold a character, in order
RECURSIVE NonEmptyOnly(_)
NonEmptyOnly(ss) ==
    IF ss = << >> THEN << >>
    ELSE IF Head(ss) = << >> THEN NonEmptyOnly(Tail(ss))
    ELSE << Head(ss) >> \o NonEmptyOnly(Tail(ss))

SentenceSeq(s) ==
    LET pieces == SplitDot(s, << >>)
    IN  NonEmptyOnly([i \in DOMAIN pieces |-> Strip(pieces[i])])

\* a string without its whitespace and periods
RECURSIVE Content(_)
Content(s) ==
    IF s = << >> THEN << >>
    ELSE IF Head(s) \in Whitespace \cup {"."} THEN Content(Tail(s))
    ELSE << Head(s) >> \o Content(Tail(s))

\* C11: the chunks concatenated in order hold the sentence sequence of the
\* text, no sentence lost, duplicated, reordered or invented, and the
\* text's characters other than whitespace and periods in their order; a
\* non-empty text gives at least one chunk
C11_ChunksReconstructSentences ==
    t_pc = "done" =>
        /\ SentenceSeq(Concat(t_chunks)) = SentenceSeq(t_text)
        /\ Content(Concat(t_chunks)) = Content(t_text)
        /\ t_text # << >> => Len(t_chunks) >= 1

\* a text of two sentences with a blank in it, split into more than one
\* chunk, one of them holding two fragments
C11_Witness ==
    /\ t_pc = "done"
    /\ Len(SentenceSeq(t_text)) = 2
    /\ Len(t_chunks) >= 2
    /\ \E i \in DOMAIN t_text : t_text[i] = " "
    /\ \E i \in DOMAIN t_chunks : NumFragments(t_chunks[i]) = 2

(***************************************************************************)
(* BiographicalRAG.load_content (specification SpecLoad)                   *)
(* l_file is the parsed content file of the person, None when the file     *)
(* does not exist.  An index entry is [id, document, metadata].            *)
(***************************************************************************)
\* chunk_size=1000 of the call in load_content
LoadChunkSize == 1000

\* str(n) of a natural number
DecimalDigits == <<"0", "1", "2", "3", "4", "5", "6", "7", "8", "9">>
RECURSIVE Str(_)
Str(n) ==
    IF n < 10 THEN << DecimalDigits[n + 1] >>
    ELSE Str(n \div 10) \o << DecimalDigits[(n % 10) + 1] >>

\* f"{person_name}_{idx}_{chunk_idx}"
DocId(person_name, idx, chunk_idx) ==
    person_name \o <<"_">> \o Str(idx) \o <<"_">> \o Str(chunk_idx)

\* longest content of a record, and most records in a content file
RecordLen == 2500
MaxRecords == 2

\* n sentences of len characters each, the closing period included
Period(len, n) == [i \in 1..(len * n) |-> IF i % len = 0 THEN "." ELSE "a"]
\* contents of RecordLen characters: without a period, as 25 sentences, as 4
\* sentences, as 2 sentences; and two short ones
LoadTexts ==
    { [i \in 1..RecordLen |-> "a"],
      Period(RecordLen \div 25, 25),
      Period(RecordLen \div 4, 4),
      Period(RecordLen \div 2, 2),
      <<"a", ".", " ", "b">>,
      << >> }
\* line 66: self._split_text(text, chunk_size=1000); _split_text is pure, its
\* values on LoadTexts are computed once and looked up
SplitOfLoadTexts == [text \in LoadTexts |-> _split_text(text, LoadChunkSize)]
LoadSplit(text) ==
    IF text \in LoadTexts THEN SplitOfLoadTexts[text] ELSE _split_text(text, LoadChunkSize)

LoadRecords ==
    { [content |-> c, source_url |-> u, content_type |-> "primary_source", title |-> u] :
        c \in LoadTexts, u \in {"u1"} }
Persons == { <<"A", "d", "a">>, <<"B", "o", " ", "X">> }

LoadInit ==
    /\ collection = << >>
    /\ l_pc = "call"
    /\ l_person \in Persons
    /\ l_file \in {None} \cup
          { Some(rs) : rs \in UNION { [1..n -> LoadRecords] : n \in 0..MaxRecords } }
    /\ l_idx = 0 /\ l_chunks = << >> /\ l_chunk_idx = 0

\* lines 55-60: the content file is opened and parsed, or is missing
LoadOpen ==
    /\ l_pc = "call"
    /\ l_pc' = IF l_file = None THEN "file_not_found" ELSE "records"
    /\ UNCHANGED <<collection, l_person, l_file, l_idx, l_chunks, l_chunk_idx>>
    /\ UNCHANGED <<scrapeVars, urlVars, searchVars, extractVars, splitVars, answerVars>>

\* lines 63-66: the next record is split, or the loop over the records ends
LoadRecord ==
    /\ l_pc = "records"
    /\ IF l_idx < Len(Val(l_file))
       THEN /\ l_chunks' = LoadSplit(Val(l_file)[l_idx + 1].content)
            /\ l_chunk_idx' = 0
            /\ l_pc' = "chunks"
       ELSE /\ l_pc' = "done"
            /\ UNCHANGED <<l_chunks, l_chunk_idx>>
    /\ UNCHANGED <<collection, l_person, l_file, l_idx>>
    /\ UNCHANGED <<scrapeVars, urlVars, searchVars, extractVars, splitVars, answerVars>>

\* lines 70-78: the id and the metadata of chunk number chunk_idx of record idx
IndexEntryCountSoFar(person_name, idx, entry_, chunk_idx, chunks) ==
    [id |-> DocId(person_name, idx, chunk_idx),
     document |-> chunks[chunk_idx + 1],
     metadata |-> [person |-> person_name,
                   source_url |-> entry_.source_url,
                   content_type |-> entry_.content_type,
                   title |-> entry_.title,
                   chunk_index |-> chunk_idx,
                   total_chunks |-> chunk_idx + 1]]
IndexEntry(person_name, idx, entry_, chunk_idx, chunks) ==
    [id |-> DocId(person_name, idx, chunk_idx),
     document |-> chunks[chunk_idx + 1],
     metadata |-> [person |-> person_name,
                   source_url |-> entry_.source_url,
                   content_type |-> entry_.content_type,
                   title |-> entry_.title,
                   chunk_index |-> chunk_idx,
                   total_chunks |-> Len(chunks)]]

\* lines 69-85: one chunk is added to the store (the embedding call of the
\* store may raise, which ends load_content), or the loop over the chunks ends
LoadChunk ==
    /\ l_pc = "chunks"
    /\ IF l_chunk_idx < Len(l_chunks)
       THEN \/ /\ collection' = Append(collection,
                      IndexEntry(l_person, l_idx, Val(l_file)[l_idx + 1], l_chunk_idx, l_chunks))
               /\ l_chunk_idx' = l_chunk_idx + 1
               /\ UNCHANGED <<l_pc, l_idx>>
            \/ /\ l_pc' = "raised"
               /\ UNCHANGED <<collection, l_chunk_idx, l_idx>>
       ELSE /\ l_idx' = l_idx + 1
            /\ l_pc' = "records"
            /\ UNCHANGED <<collection, l_chunk_idx>>
    /\ UNCHANGED <<l_person, l_file, l_chunks>>
    /\ UNCHANGED <<scrapeVars, urlVars, searchVars, extractVars, splitVars, answerVars>>

InitLoad ==
    /\ ScrapeIdle /\ UrlIdle /\ SearchIdle /\ ExtractIdle /\ SplitIdle
    /\ LoadInit /\ AnswerIdle
SpecLoad == InitLoad /\ [][LoadOpen \/ LoadRecord \/ LoadChunk]_vars

\* the entries of the store that carry the id of record number r (from 0)
\* of the loaded file, in insertion order
EntriesOf(r) ==
    SelectSeq(collection, LAMBDA e : e.id = DocId(l_person, r, e.metadata.chunk_index))

\* the entries of record r are numbered 0, 1, ... in insertion order, each
\* with the id "{person}_{r}_{chunk_index}" and the number of them as
\* total_chunks
NumberedInOrder(r) ==
    \A j \in DOMAIN EntriesOf(r) :
        /\ EntriesOf(r)[j].metadata.chunk_index = j - 1
        /\ EntriesOf(r)[j].metadata.total_chunks = Len(EntriesOf(r))
        /\ EntriesOf(r)[j].id = DocId(l_person, r, j - 1)

ChunkIndexInRange ==
    \A i \in DOMAIN collection :
        /\ 0 <= collection[i].metadata.chunk_index
        /\ collection[i].metadata.chunk_index < collection[i].metadata.total_chunks

\* C12 as stated: a loaded record of 2500 characters has exactly 3 entries,
\* all with total_chunks 3, chunk_index 0, 1, 2 in insertion order and ids
\* "{person}_{record_index}_{chunk_index}"; every entry of every record has
\* its chunk_index in [0, total_chunks)
C12_ThreeEntriesFor2500Chars ==
    /\ l_pc = "done" =>
          \A r \in 0..(Len(Val(l_file)) - 1) :
              Len(Val(l_file)[r + 1].content) = RecordLen =>
                  /\ Len(EntriesOf(r)) = 3
                  /\ NumberedInOrder(r)
    /\ ChunkIndexInRange

\* the store holds the entries of the records in record order
RECURSIVE EntriesUpTo(_)
EntriesUpTo(r) == IF r < 0 THEN << >> ELSE EntriesUpTo(r - 1) \o EntriesOf(r)

\* C12 as amended: a loaded record has one entry per chunk that
\* _split_text(content, 1000) returns, in chunk order and record order, all
\* with total_chunks that number of chunks, chunk_index 0, 1, ... in
\* insertion order and ids "{person}_{record_index}_{chunk_index}"; for a
\* record of 2500 characters that is 3 entries when its sentences fill three
\* chunks (25 sentences of 100 characters), and 1 entry when it holds no
\* period; every entry has its chunk_index in [0, total_chunks)
C12_EntryPerChunk ==
    /\ l_pc = "done" =>
          /\ \A r \in 0..(Len(Val(l_file)) - 1) :
                LET content == Val(l_file)[r + 1].content
                IN  /\ NumberedInOrder(r)
                    /\ [j \in DOMAIN EntriesOf(r) |-> EntriesOf(r)[j].document]
                          = LoadSplit(content)
                    /\ \A j \in DOMAIN EntriesOf(r) :
                          /\ EntriesOf(r)[j].metadata.person = l_person
                          /\ EntriesOf(r)[j].metadata.source_url = Val(l_file)[r + 1].source_url
                    /\ content = Period(RecordLen \div 25, 25) => Len(EntriesOf(r)) = 3
                    /\ content = [i \in 1..RecordLen |-> "a"] => Len(EntriesOf(r)) = 1
          /\ collection = EntriesUpTo(Len(Val(l_file)) - 1)
    /\ ChunkIndexInRange

\* a file of two records was loaded: 25 sentences of 100 characters with
\* three entries, then 2500 characters without a period with one entry
C12_Witness ==
    /\ l_pc = "done"
    /\ Len(Val(l_file)) = 2
    /\ Val(l_file)[1].content = Period(RecordLen \div 25, 25)
    /\ Val(l_file)[2].content = [i \in 1..RecordLen |-> "a"]
    /\ Len(collection) = 4
    /\ collection[3].metadata.chunk_index = 2
    /\ collection[4].metadata.total_chunks = 1

(***************************************************************************)
(* BiographicalRAG.answer_question (specification SpecAnswer)              *)
(* a_results holds the entries the store returned, in the store's order;   *)
(* a_calls logs the excerpts of every openai.chat.completions.create call. *)
(***************************************************************************)
\* default of n_chunks
DefaultNChunks == 3
\* most entries in the store
MaxStored == 3

\* line 136: f"I don't have enough information about {person_name} to
\* answer this question."
NoInfoPrefix ==
    << "I", " ", "d", "o", "n", "'", "t", " ", "h", "a", "v", "e",
       " ", "e", "n", "o", "u", "g", "h", " ", "i", "n", "f", "o",
       "r", "m", "a", "t", "i", "o", "n", " ", "a", "b", "o", "u",
       "t", " " >>
NoInfoSuffix ==
    << " ", "t", "o", " ", "a", "n", "s", "w", "e", "r", " ", "t",
       "h", "i", "s", " ", "q", "u", "e", "s", "t", "i", "o", "n",
       "." >>
NoInfoAnswer(person_name) == NoInfoPrefix \o person_name \o NoInfoSuffix

\* texts the generative model can return
GeneratedTexts == { <<"o", "k">>, NoInfoAnswer(<<"A", "d", "a">>) }

SourceUrlsStored == {"u1", "u2"}
\* a store of n entries, entry i of person who[i] from source where[i]
Stored(n, who, where) ==
    [i \in 1..n |->
        [id |-> DocId(who[i], 0, i - 1),
         document |-> << DecimalDigits[i] >>,
         metadata |-> [person |-> who[i], source_url |-> where[i],
                       content_type |-> "primary_source", title |-> where[i],
                       chunk_index |-> i - 1, total_chunks |-> n]]]
Stores ==
    UNION { { Stored(n, who, where) : who \in [1..n -> Persons],
                                      where \in [1..n -> SourceUrlsStored] } :
            n \in 0..MaxStored }

AnswerInit ==
    /\ collection \in Stores
    /\ a_pc = "call"
    /\ a_person \in Persons
    /\ a_n \in 1..DefaultNChunks
    /\ a_results = << >> /\ a_answer = None /\ a_calls = << >>

\* lines 128-132: what self.collection.query can return: the n_results
\* nearest entries whose metadata matches the person, nearest first; which
\* entries are nearest is the store's matter
QueryResults(store, person_name, n_results) ==
    LET matching == { i \in DOMAIN store : store[i].metadata.person = person_name }
        k == Min(n_results, Cardinality(matching))
    IN  { [j \in 1..k |-> store[f[j]]] :
            f \in { g \in [1..k -> matching] : \A i, j \in 1..k : i # j => g[i] # g[j] } }

\* lines 128-132: the query returns, or the store (its embedding call) raises
AnswerQuery ==
    /\ a_pc = "call"
    /\ \/ /\ a_results' \in QueryResults(collection, a_person, a_n)
          /\ a_pc' = "queried"
       \/ /\ a_pc' = "raised"
          /\ UNCHANGED a_results
    /\ UNCHANGED <<collection, a_person, a_n, a_answer, a_calls>>
    /\ UNCHANGED <<scrapeVars, urlVars, searchVars, extractVars, splitVars, loadVars>>

\* line 134: results['documents'][0] is truthy
HasDocumentsAlways(results) == TRUE
HasDocuments(results) == results # << >>

\* line 142
Sources(results) == [j \in DOMAIN results |-> results[j].metadata.source_url]

\* lines 134-138: no document came back
AnswerNoInfo ==
    /\ a_pc = "queried"
    /\ ~HasDocuments(a_results)
    /\ a_answer' = Some([answer |-> NoInfoAnswer(a_person), sources |-> << >>])
    /\ a_pc' = "done"
    /\ UNCHANGED <<collection, a_person, a_n, a_results, a_calls>>
    /\ UNCHANGED <<scrapeVars, urlVars, searchVars, extractVars, splitVars, loadVars>>

\* lines 141-167: the generative model is called with the excerpts; it
\* answers, or the call raises
AnswerGenerate ==
    /\ a_pc = "queried"
    /\ HasDocuments(a_results)
    /\ a_calls' = Append(a_calls, [j \in DOMAIN a_results |-> a_results[j].document])
    /\ \/ \E content \in GeneratedTexts :
             /\ a_answer' = Some([answer |-> content, sources |-> Sources(a_results)])
             /\ a_pc' = "done"
       \/ /\ a_pc' = "raised"
          /\ UNCHANGED a_answer
    /\ UNCHANGED <<collection, a_person, a_n, a_results>>
    /\ UNCHANGED <<scrapeVars, urlVars, searchVars, extractVars, splitVars, loadVars>>

InitAnswer ==
    /\ ScrapeIdle /\ UrlIdle /\ SearchIdle /\ ExtractIdle /\ SplitIdle
    /\ LoadIdle /\ AnswerInit
SpecAnswer == InitAnswer /\ [][AnswerQuery \/ AnswerNoInfo \/ AnswerGenerate]_vars

\* C13: a generative call is made exactly when the query returned at least
\* one chunk; without a chunk the result is the fixed answer naming the
\* person with no sources and no call was made; with chunks the result is
\* the generated text with the source URL of every returned chunk, in the
\* returned order, a URL as often as chunks carry it
C13_GenerativeCallIffChunks ==
    /\ Len(a_calls) <= 1
    /\ a_calls # << >> => a_results # << >>
    /\ a_pc = "done" =>
          /\ a_calls # << >> <=> a_results # << >>
          /\ a_results = << >> =>
                /\ Val(a_answer).answer = NoInfoPrefix \o a_person \o NoInfoSuffix
                /\ Val(a_answer).sources = << >>
          /\ a_results # << >> =>
                /\ Val(a_answer).answer \in GeneratedTexts
                /\ Len(Val(a_answer).sources) = Len(a_results)
                /\ \A j \in DOMAIN a_results :
                      Val(a_answer).sources[j] = a_results[j].metadata.source_url

\* an answer was generated from two chunks of the same source, while the
\* store also holds a chunk of another person
C13_Witness ==
    /\ a_pc = "done"
    /\ Len(a_calls) = 1
    /\ Len(a_results) = 2
    /\ Val(a_answer).sources = <<"u1", "u1">>
    /\ \E i \in DOMAIN collection : collection[i].metadata.person # a_person

====
